---- MODULE Spec2Model ----
(***************************************************************************)
(* Model of simpletory: the price-ordered InventoryHeap                    *)
(* (src/src/inventory_heap.rs) and the Warehouse transaction layer         *)
(* (src/src/main.rs).                                                      *)
(*                                                                         *)
(* Vectors are TLA+ sequences; the code's 0-based index i is position i+1. *)
(* Option<T> is a sequence of length 0 (None) or 1 (Some).                 *)
(* Decimal values are integers: heap-level prices and total costs are in   *)
(* cents, per-item prices computed by the Warehouse are in units of        *)
(* 10^-(2+ExtraDigits).                                                    *)
(***************************************************************************)
EXTENDS Integers, Sequences, FiniteSets

VARIABLES
    heap,                    \* InventoryHeap.heap of a stand-alone heap
    n_inserts,               \* observer: number of insert calls on heap
    inserted_qty,            \* observer: sum of the quantities inserted
    extract_ok,              \* observer: number of extract calls that returned
    extracted,               \* observer: prices returned by extract since the last insert
    last_op,                 \* observer: the last operation called on heap
    sorted_store,            \* reference store: the same lots kept sorted by price
    product_strings_to_ids,  \* Warehouse.inventory_id_map.product_strings_to_ids
    next_id,                 \* Warehouse.inventory_id_map.next_id
    inventory_heaps,         \* Warehouse.inventory_heaps
    history,                 \* Warehouse.transaction_history.history
    last,                    \* observer: <<>> or <<[t, result, price]>> of the last transact call
    looked_up,               \* observer: <<>> or <<[name, key]>> of the last direct get_inventory_key call
    panicked                 \* the thread has panicked (index out of bounds, division by zero)

heapVars == <<heap, n_inserts, inserted_qty, extract_ok, extracted, last_op, sorted_store>>
whVars == <<product_strings_to_ids, next_id, inventory_heaps, history, last, looked_up>>
vars == <<heap, n_inserts, inserted_qty, extract_ok, extracted, last_op, sorted_store,
          product_strings_to_ids, next_id, inventory_heaps, history, last, looked_up,
          panicked>>

----------------------------------------------------------------------------
(* Bounds *)

MaxInserts == 4
MaxQuantity == 2
MaxHistory == 3
ExtraDigits == 2

HeapPrices == {50, 100, 150}
Products == {"Box", "Gadget"}
KeyNames == {"Box", "Gadget", "Widget", "Crate"}
TotalCosts == {<<>>, <<100>>, <<200>>}

----------------------------------------------------------------------------
(* inventory_heap.rs *)

Inventory(p, q) == [price_per_item |-> p, quantity |-> q]

\* impl Ord / PartialOrd for Inventory: lots compare by price only
InvLess(a, b) == a.price_per_item < b.price_per_item
InvLessEq(a, b) == a.price_per_item <= b.price_per_item

At(h, i) == h[i + 1]

Swap(h, i, j) == [h EXCEPT ![i + 1] = h[j + 1], ![j + 1] = h[i + 1]]

size(h) == Len(h)

is_empty(h) == size(h) = 0

parent(index) == (index - 1) \div 2

left_child(index) == (2 * index) + 1

right_child(index) == (2 * index) + 2

RECURSIVE heapify(_, _)
RECURSIVE heapify_LeftOnly(_, _)
RECURSIVE insert_loop(_, _)

\* mutant: the right child is never compared
heapify_LeftOnly(h, index) ==
    IF size(h) <= 1 THEN h
    ELSE
        LET left == left_child(index)
            smallest == IF left < size(h) /\ InvLess(At(h, left), At(h, index))
                        THEN left ELSE index
        IN  IF smallest # index
            THEN heapify_LeftOnly(Swap(h, index, smallest), smallest)
            ELSE h

heapify(h, index) ==
    IF size(h) <= 1 THEN h
    ELSE
        LET left == left_child(index)
            right == right_child(index)
            s1 == IF left < size(h) /\ InvLess(At(h, left), At(h, index))
                  THEN left ELSE index
            smallest == IF right < size(h) /\ InvLess(At(h, right), At(h, s1))
                        THEN right ELSE s1
        IN  IF smallest # index
            THEN heapify(Swap(h, index, smallest), smallest)
            ELSE h

\* mutant: the pushed lot moves up one level at most
insert_loop_OneSwap(h, index) ==
    IF index = 0 THEN h
    ELSE
        LET parent_index == parent(index)
        IN  IF InvLessEq(At(h, parent_index), At(h, index))
            THEN h
            ELSE Swap(h, parent_index, index)

\* the while loop of insert, from the position of the pushed lot
insert_loop(h, index) ==
    IF index = 0 THEN h
    ELSE
        LET parent_index == parent(index)
        IN  IF InvLessEq(At(h, parent_index), At(h, index))
            THEN h
            ELSE insert_loop(Swap(h, parent_index, index), parent_index)

\* mutant: the lot is pushed and never moved up
insert_NoSiftUp(h, inventory) == Append(h, inventory)

\* mutant: a lot of a price already in the heap is merged into that lot
insert_Merges(h, inventory) ==
    IF \E i \in 1..Len(h) : h[i].price_per_item = inventory.price_per_item
    THEN LET i == CHOOSE i \in 1..Len(h) : h[i].price_per_item = inventory.price_per_item
         IN  [h EXCEPT ![i].quantity = @ + inventory.quantity]
    ELSE LET pushed == Append(h, inventory)
         IN  insert_loop(pushed, size(pushed) - 1)

insert(h, inventory) ==
    LET pushed == Append(h, inventory)
    IN  insert_loop(pushed, size(pushed) - 1)

\* mutant: the last lot replaces the root and is not sifted down
delete_NoHeapify(h) ==
    IF Len(h) = 0 THEN h
    ELSE IF h[1].quantity > 1
         THEN [h EXCEPT ![1].quantity = @ - 1]
         ELSE LET last_index == size(h) - 1
              IN  SubSeq([h EXCEPT ![1] = At(h, last_index)], 1, Len(h) - 1)

\* mutant: the root lot is removed whatever its quantity
delete_WholeLot(h) ==
    IF Len(h) = 0 THEN h
    ELSE LET last_index == size(h) - 1
             popped == SubSeq([h EXCEPT ![1] = At(h, last_index)], 1, Len(h) - 1)
         IN  heapify(popped, 0)

\* mutant: the quantity test is > 0 instead of > 1
delete_OffByOne(h) ==
    IF Len(h) = 0 THEN h
    ELSE IF h[1].quantity > 0
         THEN [h EXCEPT ![1].quantity = @ - 1]
         ELSE LET last_index == size(h) - 1
                  popped == SubSeq([h EXCEPT ![1] = At(h, last_index)], 1, Len(h) - 1)
              IN  heapify(popped, 0)

\* mutant: after the decrement the root is exchanged with the last lot and
\* sifted down
delete_SwapLast(h) ==
    IF Len(h) = 0 THEN h
    ELSE IF h[1].quantity > 1
         THEN heapify(Swap([h EXCEPT ![1].quantity = @ - 1], 0, size(h) - 1), 0)
         ELSE LET last_index == size(h) - 1
                  popped == SubSeq([h EXCEPT ![1] = At(h, last_index)], 1, Len(h) - 1)
              IN  heapify(popped, 0)

delete(h) ==
    IF Len(h) = 0 THEN h
    ELSE IF h[1].quantity > 1
         THEN [h EXCEPT ![1].quantity = @ - 1]
         ELSE LET last_index == size(h) - 1
                  popped == SubSeq([h EXCEPT ![1] = At(h, last_index)], 1, Len(h) - 1)
              IN  heapify(popped, 0)

\* get_min indexes heap[0]: it panics on an empty heap
get_min_panics(h) == Len(h) = 0

\* InventoryView { price_per_item } of the root; only used when the heap is not empty
get_min(h) == h[1].price_per_item

\* mutant: extract returns without a view on an empty heap
extract_EmptyReturns(h) ==
    IF get_min_panics(h)
    THEN [panic |-> FALSE, heap |-> h, min |-> <<>>]
    ELSE [panic |-> FALSE, heap |-> delete(h), min |-> <<get_min(h)>>]

\* extract: get_min, then delete, then return the view
extract(h) ==
    IF get_min_panics(h)
    THEN [panic |-> TRUE, heap |-> h, min |-> <<>>]
    ELSE [panic |-> FALSE, heap |-> delete(h), min |-> <<get_min(h)>>]

----------------------------------------------------------------------------
(* The reference store of the design notes: a sequence of lots kept sorted *)
(* by price, a new lot going after the lots of the same price             *)

sorted_insert(s, inventory) ==
    LET k == Cardinality({i \in 1..Len(s) : InvLessEq(s[i], inventory)})
    IN  SubSeq(s, 1, k) \o <<inventory>> \o SubSeq(s, k + 1, Len(s))

sorted_get_min(s) == s[1].price_per_item

\* one unit is withdrawn from the first, cheapest, lot
sorted_delete(s) ==
    IF Len(s) = 0 THEN s
    ELSE IF s[1].quantity > 1
         THEN [s EXCEPT ![1].quantity = @ - 1]
         ELSE Tail(s)

----------------------------------------------------------------------------
(* main.rs *)

\* HashMap::new()
EmptyMap == [k \in {} |-> k]

\* HashMap::insert / entry().or_insert_with()
MapPut(m, k, v) == [x \in (DOMAIN m) \cup {k} |-> IF x = k THEN v ELSE m[x]]

TransactionTypes == {"Produce", "Consume"}

Transaction(ty, id, q, c) ==
    [transaction_type |-> ty, inventory_id |-> id, quantity |-> q, total_cost |-> c]

Transactions ==
    {Transaction(ty, id, q, c) :
        ty \in TransactionTypes, id \in Products, q \in 0..MaxQuantity, c \in TotalCosts}

RECURSIVE Pow10(_)
Pow10(n) == IF n = 0 THEN 1 ELSE 10 * Pow10(n - 1)

\* total_cost / Decimal::new(quantity, 0), divisor not zero: the quotient of a
\* cost in cents, rounded to the nearest 10^-(2+ExtraDigits)
DecimalDiv(cost, quantity) ==
    LET scaled == cost * Pow10(ExtraDigits)
        quot == scaled \div quantity
        rem == scaled % quantity
    IN  IF 2 * rem >= quantity THEN quot + 1 ELSE quot

\* Decimal division panics on a zero divisor
DecimalDivPanics(quantity) == quantity = 0

\* the Warehouse as one value
Warehouse ==
    [product_strings_to_ids |-> product_strings_to_ids,
     next_id |-> next_id,
     inventory_heaps |-> inventory_heaps,
     history |-> history]

\* mutant: next_id is not incremented
insert_new_key_NoIncrement(w, inventory) ==
    [w EXCEPT !.product_strings_to_ids = MapPut(@, inventory, w.next_id)]

insert_new_key(w, inventory) ==
    [w EXCEPT !.product_strings_to_ids = MapPut(@, inventory, w.next_id),
              !.next_id = @ + 1]

\* returns the Warehouse with the updated id map and the key; the None arm
\* cannot be taken after insert_new_key
get_inventory_key(w, inventory) ==
    LET w1 == IF inventory \notin DOMAIN w.product_strings_to_ids
              THEN insert_new_key(w, inventory)
              ELSE w
    IN  [w |-> w1, key |-> w1.product_strings_to_ids[inventory]]

\* mutant: the Consume arm is missing
validate_transaction_ProduceOnly(t) ==
    IF t.transaction_type = "Produce" /\ t.total_cost = <<>> THEN "Err" ELSE "Ok"

validate_transaction(t) ==
    IF t.transaction_type = "Produce"
    THEN IF t.total_cost = <<>> THEN "Err" ELSE "Ok"
    ELSE IF t.transaction_type = "Consume"
         THEN IF t.total_cost # <<>> THEN "Err" ELSE "Ok"
         ELSE "Ok"

\* mutant: the lot always goes into a new heap, which replaces the old one
produce_ReplacesHeap(w, t) ==
    LET k == get_inventory_key(w, t.inventory_id)
        id == k.key
    IN  IF DecimalDivPanics(t.quantity)
        THEN [w |-> k.w, result |-> "Panic", price |-> <<>>]
        ELSE
            LET inventory == Inventory(DecimalDiv(t.total_cost[1], t.quantity), t.quantity)
            IN  [w |-> [k.w EXCEPT !.inventory_heaps = MapPut(@, id, insert(<<>>, inventory))],
                 result |-> "Ok",
                 price |-> <<>>]

\* mutant: the lot goes into the heap of the key assigned last
produce_LatestKey(w, t) ==
    LET k == get_inventory_key(w, t.inventory_id)
        id == k.w.next_id - 1
    IN  IF DecimalDivPanics(t.quantity)
        THEN [w |-> k.w, result |-> "Panic", price |-> <<>>]
        ELSE
            LET inventory == Inventory(DecimalDiv(t.total_cost[1], t.quantity), t.quantity)
                old == IF id \in DOMAIN k.w.inventory_heaps
                       THEN k.w.inventory_heaps[id]
                       ELSE <<>>
            IN  [w |-> [k.w EXCEPT !.inventory_heaps = MapPut(@, id, insert(old, inventory))],
                 result |-> "Ok",
                 price |-> <<>>]

produce(w, t) ==
    LET k == get_inventory_key(w, t.inventory_id)
        id == k.key
    IN  IF DecimalDivPanics(t.quantity)
        THEN [w |-> k.w, result |-> "Panic", price |-> <<>>]
        ELSE
            LET inventory == Inventory(DecimalDiv(t.total_cost[1], t.quantity), t.quantity)
                old == IF id \in DOMAIN k.w.inventory_heaps
                       THEN k.w.inventory_heaps[id]
                       ELSE <<>>
            IN  [w |-> [k.w EXCEPT !.inventory_heaps = MapPut(@, id, insert(old, inventory))],
                 result |-> "Ok",
                 price |-> <<>>]

\* mutant: a heap is created for a product that has none
consume_CreatesHeap(w, t) ==
    LET k == get_inventory_key(w, t.inventory_id)
        id == k.key
    IN  IF id \in DOMAIN k.w.inventory_heaps
        THEN LET r == extract(k.w.inventory_heaps[id])
             IN  IF r.panic
                 THEN [w |-> k.w, result |-> "Panic", price |-> <<>>]
                 ELSE [w |-> [k.w EXCEPT !.inventory_heaps[id] = r.heap],
                       result |-> "Ok",
                       price |-> r.min]
        ELSE [w |-> [k.w EXCEPT !.inventory_heaps = MapPut(@, id, <<>>)],
              result |-> "Err", price |-> <<>>]

RECURSIVE extract_times(_, _)
\* n successive extractions, stopping at a panic
extract_times(h, n) ==
    IF n = 0 THEN [panic |-> FALSE, heap |-> h, min |-> <<>>]
    ELSE LET r == extract(h)
         IN  IF r.panic \/ n = 1 THEN r ELSE extract_times(r.heap, n - 1)

\* mutant: as many units are extracted as the transaction's quantity says
consume_UsesQuantity(w, t) ==
    LET k == get_inventory_key(w, t.inventory_id)
        id == k.key
    IN  IF id \in DOMAIN k.w.inventory_heaps
        THEN LET r == extract_times(k.w.inventory_heaps[id], t.quantity)
             IN  IF r.panic
                 THEN [w |-> k.w, result |-> "Panic", price |-> <<>>]
                 ELSE [w |-> [k.w EXCEPT !.inventory_heaps[id] = r.heap],
                       result |-> "Ok",
                       price |-> r.min]
        ELSE [w |-> k.w, result |-> "Err", price |-> <<>>]

consume(w, t) ==
    LET k == get_inventory_key(w, t.inventory_id)
        id == k.key
    IN  IF id \in DOMAIN k.w.inventory_heaps
        THEN LET r == extract(k.w.inventory_heaps[id])
             IN  IF r.panic
                 THEN [w |-> k.w, result |-> "Panic", price |-> <<>>]
                 ELSE [w |-> [k.w EXCEPT !.inventory_heaps[id] = r.heap],
                       result |-> "Ok",
                       price |-> r.min]
        ELSE [w |-> k.w, result |-> "Err", price |-> <<>>]

\* mutant: the transaction is pushed whatever produce or consume returned
transact_AlwaysRecords(w, t) ==
    IF validate_transaction(t) = "Err"
    THEN [w |-> w, result |-> "Err", price |-> <<>>]
    ELSE
        LET r == IF t.transaction_type = "Produce" THEN produce(w, t) ELSE consume(w, t)
        IN  IF r.result = "Panic"
            THEN r
            ELSE [r EXCEPT !.w.history = Append(@, t)]

transact(w, t) ==
    IF validate_transaction(t) = "Err"
    THEN [w |-> w, result |-> "Err", price |-> <<>>]
    ELSE
        LET r == IF t.transaction_type = "Produce" THEN produce(w, t) ELSE consume(w, t)
        IN  IF r.result = "Ok"
            THEN [r EXCEPT !.w.history = Append(@, t)]
            ELSE r

----------------------------------------------------------------------------
(* Operations on the stand-alone heap *)

Init ==
    /\ heap = <<>>
    /\ n_inserts = 0
    /\ inserted_qty = 0
    /\ extract_ok = 0
    /\ extracted = <<>>
    /\ last_op = "new"
    /\ sorted_store = <<>>
    /\ looked_up = <<>>
    /\ product_strings_to_ids = EmptyMap
    /\ next_id = 0
    /\ inventory_heaps = EmptyMap
    /\ history = <<>>
    /\ last = <<>>
    /\ panicked = FALSE

DoInsert(p, q) ==
    /\ ~panicked
    /\ n_inserts < MaxInserts
    /\ heap' = insert(heap, Inventory(p, q))
    /\ n_inserts' = n_inserts + 1
    /\ inserted_qty' = inserted_qty + q
    /\ extracted' = <<>>
    /\ last_op' = "insert"
    /\ sorted_store' = sorted_insert(sorted_store, Inventory(p, q))
    /\ UNCHANGED <<extract_ok, panicked>>
    /\ UNCHANGED whVars

\* insert of a lot that satisfies quantity > 0
HeapInsert == \E p \in HeapPrices, q \in 1..MaxQuantity : DoInsert(p, q)

\* insert of a lot of quantity 0, which the u64 field admits
HeapInsertZero == \E p \in HeapPrices : DoInsert(p, 0)

\* mutant: without the emptiness test delete reads heap[0] and panics
HeapDelete_PanicsOnEmpty ==
    /\ ~panicked
    /\ heap' = delete(heap)
    /\ panicked' = is_empty(heap)
    /\ last_op' = "delete"
    /\ sorted_store' = sorted_delete(sorted_store)
    /\ UNCHANGED <<n_inserts, inserted_qty, extract_ok, extracted>>
    /\ UNCHANGED whVars

HeapDelete ==
    /\ ~panicked
    /\ heap' = delete(heap)
    /\ last_op' = "delete"
    /\ sorted_store' = sorted_delete(sorted_store)
    /\ UNCHANGED <<n_inserts, inserted_qty, extract_ok, extracted, panicked>>
    /\ UNCHANGED whVars

HeapExtract ==
    /\ ~panicked
    /\ LET r == extract(heap)
       IN  /\ heap' = r.heap
           /\ panicked' = r.panic
           /\ extract_ok' = IF r.panic THEN extract_ok ELSE extract_ok + 1
           /\ extracted' = IF r.panic THEN extracted ELSE extracted \o r.min
           /\ sorted_store' = IF r.panic THEN sorted_store ELSE sorted_delete(sorted_store)
    /\ last_op' = "extract"
    /\ UNCHANGED <<n_inserts, inserted_qty>>
    /\ UNCHANGED whVars

\* lots of quantity > 0; insert, delete, extract
HeapNext == HeapInsert \/ HeapDelete \/ HeapExtract
HeapSpec == Init /\ [][HeapNext]_vars

\* lots of quantity > 0; insert and extract only
ExtractNext == HeapInsert \/ HeapExtract
ExtractSpec == Init /\ [][ExtractNext]_vars

\* lots of any quantity, 0 included; insert, delete, extract
HeapAnyNext == HeapInsert \/ HeapInsertZero \/ HeapDelete \/ HeapExtract
HeapSpecAny == Init /\ [][HeapAnyNext]_vars

----------------------------------------------------------------------------
(* Operations on the Warehouse *)

\* one call of Warehouse::transact; a panic ends the run
Transact ==
    /\ ~panicked
    /\ Len(history) < MaxHistory
    /\ \E t \in Transactions :
        LET r == transact(Warehouse, t)
        IN  /\ product_strings_to_ids' = r.w.product_strings_to_ids
            /\ next_id' = r.w.next_id
            /\ inventory_heaps' = r.w.inventory_heaps
            /\ history' = r.w.history
            /\ last' = <<[t |-> t, result |-> r.result, price |-> r.price]>>
            /\ panicked' = (r.result = "Panic")
    /\ UNCHANGED looked_up
    /\ UNCHANGED heapVars

Next == Transact
Spec == Init /\ [][Next]_vars

\* one direct call of InventoryIdMap::get_inventory_key
KeyLookup ==
    /\ ~panicked
    /\ \E name \in KeyNames :
        LET k == get_inventory_key(Warehouse, name)
        IN  /\ product_strings_to_ids' = k.w.product_strings_to_ids
            /\ next_id' = k.w.next_id
            /\ looked_up' = <<[name |-> name, key |-> k.key]>>
    /\ UNCHANGED <<inventory_heaps, history, last, panicked>>
    /\ UNCHANGED heapVars

KeyNext == KeyLookup
KeySpec == Init /\ [][KeyNext]_vars

----------------------------------------------------------------------------
(* Helpers of the properties *)

Min(S) == CHOOSE x \in S : \A y \in S : x <= y

PricesOf(h) == {h[i].price_per_item : i \in 1..Len(h)}

MinPrice(h) == Min(PricesOf(h))

RECURSIVE TotalQuantity(_)
TotalQuantity(h) ==
    IF h = <<>> THEN 0 ELSE h[1].quantity + TotalQuantity(Tail(h))

HeapOrdered(h) ==
    \A i \in 0..(Len(h) - 1) :
        \A c \in {2 * i + 1, 2 * i + 2} :
            c < Len(h) => At(h, i).price_per_item <= At(h, c).price_per_item

Count(h, l) == Cardinality({i \in 1..Len(h) : h[i] = l})

\* the two vectors hold the same lots, position aside
SameLots(h1, h2) ==
    /\ Len(h1) = Len(h2)
    /\ \A i \in 1..Len(h1) : Count(h1, h1[i]) = Count(h2, h1[i])

RemoveAt(h, i) == SubSeq(h, 1, i - 1) \o SubSeq(h, i + 1, Len(h))

\* h with one unit taken from the lot at position i
OneUnitLess(h, i) ==
    IF h[i].quantity > 1 THEN [h EXCEPT ![i].quantity = @ - 1] ELSE RemoveAt(h, i)

NonDecreasing(s) == \A i, j \in 1..Len(s) : i <= j => s[i] <= s[j]

InvalidCost(t) ==
    \/ t.transaction_type = "Produce" /\ t.total_cost = <<>>
    \/ t.transaction_type = "Consume" /\ t.total_cost # <<>>

ValidConsume(t) == t.transaction_type = "Consume" /\ t.total_cost = <<>>

HasHeap(ids, heaps, name) == name \in DOMAIN ids /\ ids[name] \in DOMAIN heaps

NeverProduced(hist, name) ==
    \A i \in 1..Len(hist) :
        ~(hist[i].transaction_type = "Produce" /\ hist[i].inventory_id = name)

\* the heap of a product name, empty when the product has none
HeapOfName(ids, heaps, name) ==
    IF HasHeap(ids, heaps, name) THEN heaps[ids[name]] ELSE <<>>

Abs(x) == IF x < 0 THEN -x ELSE x

\* p, in units of 10^-(2+ExtraDigits), is cost / quantity rounded to the unit
PriceIsQuotient(p, cost, quantity) ==
    2 * Abs(p * quantity - cost * Pow10(ExtraDigits)) <= quantity

\* the number of units that h holds at price p
UnitsAt(h, p) ==
    TotalQuantity(SelectSeq(h, LAMBDA l : l.price_per_item = p))

SameUnitsPerPrice(h1, h2) ==
    \A p \in PricesOf(h1) \cup PricesOf(h2) : UnitsAt(h1, p) = UnitsAt(h2, p)

----------------------------------------------------------------------------
(* Properties *)

\* C1: heap order. After any sequence of insert, delete and extract on an
\* empty heap, the price of every node is <= the price of each of its
\* children (2i+1, 2i+2) that lies inside the vector.
C1_HeapOrder == HeapOrdered(heap)

\* a heap of three lots with different child prices, left by an extraction
C1_Witness ==
    /\ Len(heap) = 3
    /\ extract_ok >= 1
    /\ n_inserts = 4
    /\ heap[2].price_per_item # heap[3].price_per_item

\* C2: cheapest first. On a non-empty heap get_min is the minimum price over
\* the lots of the heap; extract returns that minimum and takes one unit from
\* a lot of that price, leaving every other lot as it was.
C2_CheapestFirst ==
    /\ [](heap # <<>> => get_min(heap) = MinPrice(heap))
    /\ [][extract_ok' = extract_ok + 1 =>
            /\ extracted'[Len(extracted')] = MinPrice(heap)
            /\ \E i \in 1..Len(heap) :
                /\ heap[i].price_per_item = MinPrice(heap)
                /\ SameLots(heap', OneUnitLess(heap, i))]_vars

\* 2 units at 1.00 and 1 unit at 0.50 were inserted and the extractions
\* returned 0.50, 1.00, 1.00
C2_Witness ==
    /\ n_inserts = 2
    /\ inserted_qty = 3
    /\ extracted = <<50, 100, 100>>
    /\ heap = <<>>

\* C3: monotonic extraction. The prices returned by successive extract calls
\* with no insert in between never decrease.
C3_MonotonicExtraction == NonDecreasing(extracted)

\* a heap drained to empty by at least four extractions of rising price
C3_Witness ==
    /\ is_empty(heap)
    /\ n_inserts >= 3
    /\ Len(extracted) >= 4
    /\ extracted[1] < extracted[Len(extracted)]

C6_ValidationRejects ==
    [][InvalidCost(last'[1].t) =>
        /\ last'[1].result = "Err"
        /\ UNCHANGED <<product_strings_to_ids, next_id, inventory_heaps, history>>]_vars

\* a Consume carrying a total cost was rejected while its product had stock
C6_Witness ==
    /\ last # <<>>
    /\ last[1].t.transaction_type = "Consume"
    /\ last[1].t.total_cost # <<>>
    /\ last[1].result = "Err"
    /\ HasHeap(product_strings_to_ids, inventory_heaps, last[1].t.inventory_id)
    /\ inventory_heaps[product_strings_to_ids[last[1].t.inventory_id]] # <<>>

\* C7: empty-heap consume. A valid Consume for a product whose heap exists
\* and is empty makes transact return Err, and the history is not extended.
C7_EmptyHeapConsumeReturnsErr ==
    [][(/\ ValidConsume(last'[1].t)
        /\ HasHeap(product_strings_to_ids, inventory_heaps, last'[1].t.inventory_id)
        /\ is_empty(inventory_heaps[product_strings_to_ids[last'[1].t.inventory_id]]))
        => (last'[1].result = "Err" /\ history' = history)]_vars

\* C8: unknown-product consume. A valid Consume for a product with no accepted
\* Produce returns Err, leaves the history as it was and creates no heap for
\* the product.
C8_UnknownProductConsume ==
    [][(ValidConsume(last'[1].t) /\ NeverProduced(history, last'[1].t.inventory_id)) =>
        /\ last'[1].result = "Err"
        /\ history' = history
        /\ ~HasHeap(product_strings_to_ids', inventory_heaps', last'[1].t.inventory_id)]_vars

\* a Consume of a product never produced was refused while another product
\* had been produced
C8_Witness ==
    /\ last # <<>>
    /\ ValidConsume(last[1].t)
    /\ last[1].result = "Err"
    /\ NeverProduced(history, last[1].t.inventory_id)
    /\ Len(history) >= 1
    /\ ~HasHeap(product_strings_to_ids, inventory_heaps, last[1].t.inventory_id)

\* C9: append-only history. A transact call that returns Ok appends its
\* transaction at the end of the history; any other call leaves the history
\* as it was.
C9_HistoryAppendOnly ==
    [][/\ last'[1].result = "Ok" => history' = Append(history, last'[1].t)
       /\ last'[1].result # "Ok" => history' = history]_vars

\* two accepted transactions are recorded and the last call was refused
C9_Witness ==
    /\ last # <<>>
    /\ last[1].result = "Err"
    /\ Len(history) >= 2
    /\ history[1] # history[2]

\* C10: zero-quantity produce. A Produce of quantity 0 with a total cost
\* makes transact return Err; no heap changes and the history is not extended.
C10_ZeroQuantityProduceReturnsErr ==
    [][(/\ last'[1].t.transaction_type = "Produce"
        /\ last'[1].t.quantity = 0
        /\ last'[1].t.total_cost # <<>>)
        => (/\ last'[1].result = "Err"
            /\ inventory_heaps' = inventory_heaps
            /\ history' = history)]_vars

\* C11: no partial effects on failure. A transact call that returns Err
\* leaves the id map, its next_id counter, every heap and the history as they
\* were before the call.
C11_NoEffectOnErr ==
    [][last'[1].result = "Err" =>
        UNCHANGED <<product_strings_to_ids, next_id, inventory_heaps, history>>]_vars

\* C12: stable, unique keys. After any sequence of get_inventory_key calls
\* the call returned the key mapped to its name, different names have
\* different keys, the keys are 0..next_id-1 with next_id the number of names,
\* a new name gets the key next_id, and no mapping is removed or changed.
C12_KeysStableUnique ==
    /\ [](/\ \A a, b \in DOMAIN product_strings_to_ids :
                a # b => product_strings_to_ids[a] # product_strings_to_ids[b]
          /\ {product_strings_to_ids[n] : n \in DOMAIN product_strings_to_ids}
                = 0..(next_id - 1)
          /\ next_id = Cardinality(DOMAIN product_strings_to_ids)
          /\ looked_up # <<>> =>
                /\ looked_up[1].name \in DOMAIN product_strings_to_ids
                /\ product_strings_to_ids[looked_up[1].name] = looked_up[1].key)
    /\ [][/\ \A n \in DOMAIN product_strings_to_ids :
                /\ n \in DOMAIN product_strings_to_ids'
                /\ product_strings_to_ids'[n] = product_strings_to_ids[n]
          /\ looked_up'[1].name \notin DOMAIN product_strings_to_ids =>
                looked_up'[1].key = next_id
          /\ looked_up'[1].name \in DOMAIN product_strings_to_ids =>
                /\ looked_up'[1].key = product_strings_to_ids[looked_up'[1].name]
                /\ next_id' = next_id]_vars

\* three names have keys and the first name was looked up again
C12_Witness ==
    /\ next_id = 3
    /\ looked_up # <<>>
    /\ looked_up[1].key = 0

\* C13 as claimed: extract on an empty heap is a recoverable failure; the
\* thread does not panic and the heap is still empty.
C13_EmptyExtractRecoverable ==
    [][(last_op' = "extract" /\ is_empty(heap)) =>
        (~panicked' /\ is_empty(heap'))]_vars

\* C13: emptiness at the heap layer. extract on an empty heap returns no
\* price: get_min panics on heap[0] before delete runs, so nothing is counted
\* as extracted and the heap is still empty.
C13_EmptyExtractPanics ==
    [][(last_op' = "extract" /\ is_empty(heap)) =>
        /\ panicked'
        /\ heap' = heap
        /\ is_empty(heap')
        /\ extract_ok' = extract_ok
        /\ extracted' = extracted]_vars

\* a heap was drained and extract was called once more
C13_Witness ==
    /\ panicked
    /\ last_op = "extract"
    /\ is_empty(heap)
    /\ n_inserts >= 1
    /\ extract_ok >= 1

\* C14: effect of an accepted produce. After transact accepts a Produce of
\* quantity q and total cost c for a product, the product has a heap that
\* holds the lots it held before, unchanged, and one more lot of quantity q
\* and price c / q; q is not 0.
C14_ProduceAddsOneLot ==
    [][(last'[1].result = "Ok" /\ last'[1].t.transaction_type = "Produce") =>
        LET t == last'[1].t
            old == HeapOfName(product_strings_to_ids, inventory_heaps, t.inventory_id)
            new == HeapOfName(product_strings_to_ids', inventory_heaps', t.inventory_id)
        IN  /\ t.quantity > 0
            /\ HasHeap(product_strings_to_ids', inventory_heaps', t.inventory_id)
            /\ \E i \in 1..Len(new) :
                /\ new[i].quantity = t.quantity
                /\ PriceIsQuotient(new[i].price_per_item, t.total_cost[1], t.quantity)
                /\ SameLots(RemoveAt(new, i), old)]_vars

\* a Produce was accepted for a product whose heap already held a lot
C14_Witness ==
    /\ last # <<>>
    /\ last[1].result = "Ok"
    /\ last[1].t.transaction_type = "Produce"
    /\ Len(HeapOfName(product_strings_to_ids, inventory_heaps, last[1].t.inventory_id)) >= 2

\* C15: lots are never merged. Every insert makes the heap one node larger,
\* whatever prices it already holds: the heap then holds the lots it held
\* before, unchanged, and the inserted lot as a node of its own.
C15_InsertNeverMerges ==
    [][last_op' = "insert" =>
        /\ size(heap') = size(heap) + 1
        /\ \E i \in 1..Len(heap') :
            /\ heap'[i].quantity = inserted_qty' - inserted_qty
            /\ SameLots(RemoveAt(heap', i), heap)]_vars

\* the same lot (same price, quantity 2) was inserted twice and both nodes
\* are in the heap
C15_Witness ==
    /\ last_op = "insert"
    /\ n_inserts = 2
    /\ size(heap) = 2
    /\ heap[1] = heap[2]
    /\ heap[1].quantity = 2

\* C16: in-place partial consumption. A delete or extract on a root of
\* quantity > 1 takes 1 from the root's quantity and changes nothing else:
\* same size, every lot at the same index, every other lot as it was.
C16_PartialConsumptionInPlace ==
    [][(last_op' \in {"delete", "extract"} /\ ~is_empty(heap) /\ heap[1].quantity > 1) =>
        /\ ~panicked'
        /\ heap' = [heap EXCEPT ![1].quantity = @ - 1]
        /\ size(heap') = size(heap)]_vars

\* a delete took one unit from the root of a heap of several lots, none of
\* which was removed
C16_Witness ==
    /\ last_op = "delete"
    /\ size(heap) >= 2
    /\ size(heap) = n_inserts
    /\ TotalQuantity(heap) = inserted_qty - 1

\* C17: one unit per consume. A Consume that transact accepts lowers the
\* total quantity of its product's heap by exactly 1, whatever the quantity
\* field of the transaction says.
C17_ConsumeTakesOneUnit ==
    [][(last'[1].result = "Ok" /\ last'[1].t.transaction_type = "Consume") =>
        LET name == last'[1].t.inventory_id
        IN  TotalQuantity(HeapOfName(product_strings_to_ids', inventory_heaps', name))
                = TotalQuantity(HeapOfName(product_strings_to_ids, inventory_heaps, name)) - 1]_vars

\* a Consume with a quantity field above 1 was accepted and stock remains
C17_Witness ==
    /\ last # <<>>
    /\ last[1].result = "Ok"
    /\ last[1].t.transaction_type = "Consume"
    /\ last[1].t.quantity > 1
    /\ TotalQuantity(HeapOfName(product_strings_to_ids, inventory_heaps,
                                last[1].t.inventory_id)) >= 1

\* C18: delete on an empty heap is a no-op. It does not panic and the heap
\* is still empty afterwards.
C18_DeleteOnEmptyIsNoOp ==
    [][(last_op' = "delete" /\ is_empty(heap)) =>
        /\ ~panicked'
        /\ heap' = heap
        /\ size(heap') = 0]_vars

\* delete was called on a heap into which nothing was ever inserted
C18_Witness ==
    /\ last_op = "delete"
    /\ n_inserts = 0
    /\ is_empty(heap)
    /\ ~panicked

C20_ProductIsolation ==
    [][LET name == last'[1].t.inventory_id
       IN  /\ \A q \in Products \ {name} :
                /\ HasHeap(product_strings_to_ids, inventory_heaps, q) =>
                    /\ HasHeap(product_strings_to_ids', inventory_heaps', q)
                    /\ inventory_heaps'[product_strings_to_ids'[q]]
                        = inventory_heaps[product_strings_to_ids[q]]
                /\ ~HasHeap(product_strings_to_ids, inventory_heaps, q) =>
                    ~HasHeap(product_strings_to_ids', inventory_heaps', q)
           /\ \A n \in DOMAIN product_strings_to_ids :
                /\ n \in DOMAIN product_strings_to_ids'
                /\ product_strings_to_ids'[n] = product_strings_to_ids[n]
           /\ \A k \in DOMAIN inventory_heaps : k \in DOMAIN inventory_heaps']_vars

\* a Consume emptied the heap of its product, which is still in the
\* Warehouse, while another product holds stock
C20_Witness ==
    /\ last # <<>>
    /\ last[1].result = "Ok"
    /\ last[1].t.transaction_type = "Consume"
    /\ HasHeap(product_strings_to_ids, inventory_heaps, last[1].t.inventory_id)
    /\ is_empty(inventory_heaps[product_strings_to_ids[last[1].t.inventory_id]])
    /\ \E q \in Products \ {last[1].t.inventory_id} :
        /\ HasHeap(product_strings_to_ids, inventory_heaps, q)
        /\ ~is_empty(inventory_heaps[product_strings_to_ids[q]])

====
